---- MODULE Spec2Model ----
(***************************************************************************)
(* camdkit data model (src/main/python/camdkit/model.py).                  *)
(*                                                                         *)
(* Two specifications share this module:                                   *)
(*   Spec      the Clip record container: the class-level descriptor       *)
(*             mapping (Clip._params with each descriptor's sampling) and  *)
(*             two Clip instances, driven by set, append, __getitem__,     *)
(*             make_json_schema and make_static_json_schema;               *)
(*   DescSpec  the parameter descriptors with their own logic: a value is  *)
(*             drawn, then validate, to_json, the schema check, from_json  *)
(*             and validate of the decoded value are applied to it.        *)
(*                                                                         *)
(* Python values are tagged records [kind |-> type, data |-> payload].           *)
(***************************************************************************)
EXTENDS Integers, Sequences, FiniteSets, TLC

VARIABLES
  \* the Clip container
  params, values, last, extracted, schema,
  \* one descriptor applied to one value
  dname, dval, stage, dres, wire, conforms, dec, dres2

cvars == <<params, values, last, extracted, schema>>

dvars == <<dname, dval, stage, dres, wire, conforms, dec, dres2>>

vars == <<cvars, dvars>>

----------------------------------------------------------------------------
(* Bounds *)

\* longest REGULAR sequence a slot may hold
MaxLen == 3

\* longest tuple of transforms a Transforms value is drawn with
MaxTransforms == 2

----------------------------------------------------------------------------
(* Python values held by record slots *)

PyNone == [kind |-> "None", data |-> <<>>]

PyInt(n) == [kind |-> "int", data |-> <<n>>]

PyTuple(s) == [kind |-> "tuple", data |-> s]

IsNone(x) == x.kind = "None"

IsTuple(x) == x.kind = "tuple"

\* a += b on two slot values: tuples concatenate, integers add, anything
\* else (None on the left, a tuple with an integer) raises TypeError
IAdd(a, b) ==
  IF a.kind = "tuple" /\ b.kind = "tuple"
    THEN [fault |-> FALSE, val |-> PyTuple(a.data \o b.data)]
  ELSE IF a.kind = "int" /\ b.kind = "int"
    THEN [fault |-> FALSE, val |-> PyInt(a.data[1] + b.data[1])]
  ELSE [fault |-> TRUE, val |-> a]

----------------------------------------------------------------------------
(* The Clip record type: a representative part of its descriptor table *)

Clips == {"A", "B"}

NotAClip == "NotAClip"

Fields == {"f_number", "iso", "t_number"}

\* the sampling each descriptor class declares
DeclaredSampling ==
  [f \in Fields |-> IF f = "iso" THEN "STATIC" ELSE "REGULAR"]

DeclaredRegular == {f \in Fields : DeclaredSampling[f] = "REGULAR"}

DeclaredStatic == {f \in Fields : DeclaredSampling[f] = "STATIC"}

\* values a caller assigns to a slot: None, or a value of the field's type
\* (the setter validates nothing, so a sample may be 0, which the field's
\* descriptor rejects)
SetInputs(f) ==
  IF DeclaredSampling[f] = "STATIC"
    THEN {PyNone, PyInt(100)}
    ELSE {PyNone, PyTuple(<<10>>), PyTuple(<<11, 0>>)}

\* Clip(): every slot unset
EmptyValues == [f \in Fields |-> PyNone]

EmptySchema == [f \in {} |-> "inline"]

NoOp ==
  [op |-> "init", recv |-> "-", other |-> "-", idx |-> 0, fault |-> FALSE,
   verdict |-> "none"]

\* the orders in which a mapping with keys S can be walked
Orders(S) ==
  {o \in [1..Cardinality(S) -> S] : \A i, j \in DOMAIN o : i # j => o[i] # o[j]}

----------------------------------------------------------------------------
(* Clip.append *)

RECURSIVE AppendLoop(_, _, _, _, _)
\* the for loop of append, from position i of the walk over self._params
AppendLoop(prm, order, i, recv, oth) ==
  IF i > Len(order) THEN [vals |-> recv, fault |-> FALSE]
  ELSE LET prop == order[i] IN
    IF ~IsNone(oth[prop]) /\ prm[prop] = "REGULAR"
      THEN LET r == IAdd(recv[prop], oth[prop]) IN
        IF r.fault THEN [vals |-> recv, fault |-> TRUE]
        ELSE AppendLoop(prm, order, i + 1, [recv EXCEPT ![prop] = r.val], oth)
      ELSE AppendLoop(prm, order, i + 1, recv, oth)

\* append with the sampling test dropped: every populated field is added
RECURSIVE AppendLoopAnySampling(_, _, _, _, _)
AppendLoopAnySampling(prm, order, i, recv, oth) ==
  IF i > Len(order) THEN [vals |-> recv, fault |-> FALSE]
  ELSE LET prop == order[i] IN
    IF ~IsNone(oth[prop])
      THEN LET r == IAdd(recv[prop], oth[prop]) IN
        IF r.fault THEN [vals |-> recv, fault |-> TRUE]
        ELSE AppendLoopAnySampling(prm, order, i + 1,
                                   [recv EXCEPT ![prop] = r.val], oth)
      ELSE AppendLoopAnySampling(prm, order, i + 1, recv, oth)

\* append that returns instead of raising on a foreign argument
AppendResultNoRaise(prm, order, recv, isClip, oth) ==
  IF ~isClip THEN [vals |-> recv, fault |-> FALSE]
  ELSE AppendLoop(prm, order, 1, recv, oth)

\* append whose loop adds every populated field, whatever its sampling
AppendResultAnySampling(prm, order, recv, isClip, oth) ==
  IF ~isClip THEN [vals |-> recv, fault |-> TRUE]
  ELSE AppendLoopAnySampling(prm, order, 1, recv, oth)

\* self.append(clip): the receiver's slots afterwards, and whether it raised
AppendResult(prm, order, recv, isClip, oth) ==
  IF ~isClip THEN [vals |-> recv, fault |-> TRUE]
  ELSE AppendLoop(prm, order, 1, recv, oth)

MaxSlotLen(vals) ==
  LET lens == {Len(vals[f].data) : f \in Fields} IN
  CHOOSE n \in lens : \A m \in lens : m <= n

----------------------------------------------------------------------------
(* Clip.__getitem__ *)

RECURSIVE GetItemLoop(_, _, _, _)
\* the loop over dir(self): names in alphabetical order; only tuple-valued
\* attributes are taken, desc[i] raises IndexError when i is out of range
GetItemLoop(names, src, i, clip) ==
  IF names = <<>> THEN [clip |-> clip, fault |-> FALSE]
  ELSE LET f == Head(names) IN
    IF ~IsTuple(src[f]) THEN GetItemLoop(Tail(names), src, i, clip)
    ELSE IF i >= Len(src[f].data) THEN [clip |-> clip, fault |-> TRUE]
    ELSE GetItemLoop(Tail(names), src, i,
                     [clip EXCEPT ![f] = PyInt(src[f].data[i + 1])])

\* dir(self) restricted to the field names
DirFields == <<"f_number", "iso", "t_number">>

GetItem(src, i) == GetItemLoop(DirFields, src, i, EmptyValues)

----------------------------------------------------------------------------
(* Schemas *)

\* ParameterContainer.make_json_schema: one property per entry of the
\* mapping, array-wrapped when the descriptor's sampling is REGULAR
MakeJsonSchema(prm) ==
  [f \in DOMAIN prm |-> IF prm[f] = "REGULAR" THEN "array" ELSE "inline"]

\* the mapping make_static_json_schema leaves behind
StaticParams(prm) ==
  [f \in {g \in DOMAIN prm : prm[g] # "STATIC"} |-> "STATIC"]

----------------------------------------------------------------------------
(* Python values seen by the parameter descriptors                          *)
(* Scalars carry their payload in a sequence; a float is held in tenths.    *)
(* A str is a sequence of chunks (single characters where a pattern is      *)
(* matched against it).  Dataclass instances and dicts carry a function     *)
(* from names to values, tuples and lists a sequence of values.             *)

PyFloat(tenths) == [kind |-> "float", data |-> <<tenths>>]

PyBool(b) == [kind |-> "bool", data |-> <<b>>]

PyStr(s) == [kind |-> "str", data |-> s]

PyEnum(cls, name) == [kind |-> cls, data |-> <<name>>]

PyData(cls, fs) == [kind |-> cls, data |-> fs]

PyDict(fs) == [kind |-> "dict", data |-> fs]

PyList(s) == [kind |-> "list", data |-> s]

\* the dataclasses of camdkit.framework and their fields
DataFields(cls) ==
  CASE cls = "Vector3" -> {"x", "y", "z"}
    [] cls = "Rotator3" -> {"pan", "tilt", "roll"}
    [] cls = "Transform" -> {"translation", "rotation", "scale", "name", "parent"}
    [] cls = "Synchronization" ->
         {"frequency", "locked", "source", "ptp_master", "ptp_offset",
          "ptp_domain", "offsets", "enabled"}
    [] cls = "SynchronizationOffsets" -> {"translation", "rotation", "encoders"}
    [] cls = "Timecode" -> {"hours", "minutes", "seconds", "frames", "format"}
    [] cls = "Encoders" -> {"focus", "iris", "zoom"}
    [] cls = "Orientations" -> {"horizontal", "vertical"}
    [] cls = "ExposureFalloff" -> {"a1", "a2", "a3"}

\* the fields a constructor call must supply (the others default to None)
RequiredFields(cls) ==
  CASE cls = "Vector3" -> {"x", "y", "z"}
    [] cls = "Rotator3" -> {"pan", "tilt", "roll"}
    [] cls = "Transform" -> {"translation", "rotation"}
    [] cls = "Synchronization" -> {"frequency", "locked", "source"}
    [] cls = "SynchronizationOffsets" -> {"translation", "rotation", "encoders"}
    [] cls = "Timecode" -> {"hours", "minutes", "seconds", "frames", "format"}
    [] cls = "Encoders" -> {}
    [] cls = "Orientations" -> {"horizontal", "vertical"}
    [] cls = "ExposureFalloff" -> {"a1"}

DataClasses ==
  {"Vector3", "Rotator3", "Transform", "Synchronization",
   "SynchronizationOffsets", "Timecode", "Encoders", "Orientations",
   "ExposureFalloff"}

IsData(x) == x.kind \in DataClasses

\* values whose payload maps positions or names to further values
IsCompound(x) == IsData(x) \/ x.kind \in {"dict", "list", "tuple"}

RECURSIVE PyEq(_, _)
\* a == b: same type and equal contents (dataclass __eq__, dict, tuple)
PyEq(a, b) ==
  /\ a.kind = b.kind
  /\ IF IsCompound(a)
       THEN /\ DOMAIN a.data = DOMAIN b.data
            /\ \A k \in DOMAIN a.data : PyEq(a.data[k], b.data[k])
       ELSE a.data = b.data

\* isinstance(x, numbers.Real), numbers.Integral, int: bool is a subclass of int
IsReal(x) == x.kind \in {"int", "float", "bool"}

IsIntegral(x) == x.kind \in {"int", "bool"}

IsFloat(x) == x.kind = "float"

IsBool(x) == x.kind = "bool"

IsStr(x) == x.kind = "str"

\* the numeric value of a number, in tenths
Tenths(x) ==
  CASE x.kind = "int" -> 10 * x.data[1]
    [] x.kind = "float" -> x.data[1]
    [] x.kind = "bool" -> IF x.data[1] THEN 10 ELSE 0

\* restriction of a function to the keys in S
Restrict(fn, S) == [k \in S |-> fn[k]]

RECURSIVE AsDict(_)
\* dataclasses.asdict(x): every dataclass instance, at any depth, as a dict
AsDict(x) ==
  IF IsData(x) THEN PyDict([k \in DOMAIN x.data |-> AsDict(x.data[k])])
  ELSE IF x.kind \in {"list", "tuple"} THEN [x EXCEPT !.data = [k \in DOMAIN x.data |-> AsDict(x.data[k])]]
  ELSE x

RECURSIVE AsDictNoNone(_)
\* asdict with dict_factory = {k: v for (k, v) in x if v is not None}
AsDictNoNone(x) ==
  IF IsData(x)
    THEN PyDict([k \in {j \in DOMAIN x.data : ~IsNone(x.data[j])} |-> AsDictNoNone(x.data[k])])
  ELSE x

\* {k: v for k, v in d.items() if v is not None}
DropNone(d) == PyDict(Restrict(d.data, {k \in DOMAIN d.data : ~IsNone(d.data[k])}))

\* cls(**d): TypeError on an unexpected or a missing required keyword
CanConstruct(cls, d) ==
  /\ d.kind = "dict"
  /\ DOMAIN d.data \subseteq DataFields(cls)
  /\ RequiredFields(cls) \subseteq DOMAIN d.data

Construct(cls, d) ==
  PyData(cls, [k \in DataFields(cls) |-> IF k \in DOMAIN d.data THEN d.data[k] ELSE PyNone])

\* what a decoder hands back: the value, or a raised fault
Decoded(x) == [fault |-> FALSE, val |-> x]

DecodeFault == [fault |-> TRUE, val |-> PyNone]

\* a bool as the outcome of validate
Outcome(b) == IF b THEN "true" ELSE "false"

\* JSON Schema primitive types of an encoded value
JsonNumber(x) == x.kind \in {"int", "float"}

JsonInteger(x) == x.kind = "int"

JsonBoolean(x) == x.kind = "bool"

JsonString(x) == x.kind = "str"

JsonObject(x) == x.kind = "dict"

JsonArray(x) == x.kind \in {"list", "tuple"}

\* type number or integer with minimum lo and maximum hi (given in units)
JsonNumberIn(x, lo, hi) == JsonNumber(x) /\ 10 * lo <= Tenths(x) /\ Tenths(x) <= 10 * hi

JsonIntegerIn(x, lo, hi) == JsonInteger(x) /\ lo <= x.data[1] /\ x.data[1] <= hi

\* object x has property k
Has(x, k) == k \in DOMAIN x.data

----------------------------------------------------------------------------
(* ShutterAngle *)

\* validate with the lower limit included
ShutterAngleValidateFromZero(value) ==
  Outcome(IsIntegral(value) /\ 0 <= Tenths(value) /\ Tenths(value) <= 10 * 360000)

ShutterAngleValidate(value) ==
  Outcome(IsIntegral(value) /\ 0 < Tenths(value) /\ Tenths(value) <= 10 * 360000)

ShutterAngleToJson(value) == value

\* int(value)
ShutterAngleFromJson(value) ==
  IF value.kind = "int" THEN Decoded(value)
  ELSE IF value.kind = "bool" THEN Decoded(PyInt(Tenths(value) \div 10))
  ELSE IF value.kind = "float" THEN Decoded(PyInt(value.data[1] \div 10))
  ELSE DecodeFault

ShutterAngleConforms(j) == JsonIntegerIn(j, 1, 360000)

----------------------------------------------------------------------------
(* LensEncoders *)

EncoderOk(test) ==
  IsNone(test) \/ (IsFloat(test) /\ test.data[1] >= 0 /\ test.data[1] <= 10)

LensEncodersValidate(value) ==
  IF value.kind # "Encoders" THEN "false"
  ELSE IF IsNone(value.data.focus) /\ IsNone(value.data.iris) /\ IsNone(value.data.zoom)
    THEN "false"
  ELSE Outcome(\A k \in {"focus", "iris", "zoom"} : EncoderOk(value.data[k]))

LensEncodersToJson(value) == DropNone(AsDict(value))

LensEncodersFromJson(value) ==
  IF CanConstruct("Encoders", value) THEN Decoded(Construct("Encoders", value))
  ELSE DecodeFault

UnitNumber(x) == JsonNumberIn(x, 0, 1)

LensEncodersConforms(j) ==
  /\ JsonObject(j)
  /\ DOMAIN j.data \subseteq {"focus", "iris", "zoom"}
  /\ \A k \in {"focus", "iris", "zoom"} : (Has(j, k) => UnitNumber(j.data[k]))
  /\ \E k \in {"focus", "iris", "zoom"} : k \in DOMAIN j.data

----------------------------------------------------------------------------
(* LensFoVScale *)

LensFoVScaleValidate(value) ==
  IF value.kind # "Orientations" THEN "false"
  ELSE IF ~IsReal(value.data.horizontal) \/ ~IsReal(value.data.vertical) THEN "false"
  ELSE IF Tenths(value.data.horizontal) < 0 \/ Tenths(value.data.vertical) < 0 THEN "false"
  ELSE "true"

LensFoVScaleToJson(value) == AsDict(value)

LensFoVScaleFromJson(value) ==
  IF CanConstruct("Orientations", value)
    THEN Decoded(Construct("Orientations", value))
  ELSE DecodeFault

NonNegativeNumber(x) == JsonNumber(x) /\ Tenths(x) >= 0

LensFoVScaleConforms(j) ==
  /\ JsonObject(j)
  /\ DOMAIN j.data \subseteq {"horizontal", "vertical"}
  /\ {"horizontal", "vertical"} \subseteq DOMAIN j.data
  /\ \A k \in {"horizontal", "vertical"} : (Has(j, k) => NonNegativeNumber(j.data[k]))

----------------------------------------------------------------------------
(* LensExposureFalloff *)

LensExposureFalloffValidate(value) ==
  IF value.kind # "ExposureFalloff" THEN "false"
  ELSE IF IsNone(value.data.a1) THEN "false"
  ELSE Outcome(\A k \in {"a1", "a2", "a3"} :
                 IsNone(value.data[k]) \/ IsReal(value.data[k]))

\* to_json keeps the None coefficients, as asdict returns them
LensExposureFalloffToJson(value) == AsDict(value)

LensExposureFalloffFromJson(value) ==
  IF CanConstruct("ExposureFalloff", value)
    THEN Decoded(Construct("ExposureFalloff", value))
  ELSE DecodeFault

LensExposureFalloffConforms(j) ==
  /\ JsonObject(j)
  /\ DOMAIN j.data \subseteq {"a1", "a2", "a3"}
  /\ "a1" \in DOMAIN j.data
  /\ \A k \in {"a1", "a2", "a3"} : (Has(j, k) => JsonNumber(j.data[k]))

----------------------------------------------------------------------------
(* TimingTimecode *)

TimecodeFormats == {"24", "24D", "25", "30", "30D"}

\* TimecodeFormat.to_int: the frame count of a format
TimecodeFormatToInt(fmt) ==
  CASE fmt.data[1] \in {"24", "24D"} -> 24
    [] fmt.data[1] = "25" -> 25
    [] fmt.data[1] \in {"30", "30D"} -> 30

\* str(format) and TimecodeFormat.from_string
EnumToStr(e) == PyStr(e.data)

TimecodeFormatFromString(s) ==
  IF IsStr(s) /\ Len(s.data) = 1 /\ s.data[1] \in TimecodeFormats
    THEN Decoded(PyEnum("TimecodeFormat", s.data[1]))
  ELSE DecodeFault

\* isinstance(x, int) and lo <= x < hi
IntInRange(x, lo, hi) == IsIntegral(x) /\ 10 * lo <= Tenths(x) /\ Tenths(x) < 10 * hi

\* validate with the frames ceiling of the schema (29) for every format
TimingTimecodeValidateFlatFrames(value) ==
  IF value.kind # "Timecode" THEN "false"
  ELSE IF value.data.format.kind # "TimecodeFormat" THEN "false"
  ELSE IF ~IntInRange(value.data.hours, 0, 24) THEN "false"
  ELSE IF ~IntInRange(value.data.minutes, 0, 60) THEN "false"
  ELSE IF ~IntInRange(value.data.seconds, 0, 60) THEN "false"
  ELSE IF ~IntInRange(value.data.frames, 0, 30) THEN "false"
  ELSE "true"

TimingTimecodeValidate(value) ==
  IF value.kind # "Timecode" THEN "false"
  ELSE IF value.data.format.kind # "TimecodeFormat" THEN "false"
  ELSE IF ~IntInRange(value.data.hours, 0, 24) THEN "false"
  ELSE IF ~IntInRange(value.data.minutes, 0, 60) THEN "false"
  ELSE IF ~IntInRange(value.data.seconds, 0, 60) THEN "false"
  ELSE IF ~IntInRange(value.data.frames, 0, TimecodeFormatToInt(value.data.format))
    THEN "false"
  ELSE "true"

TimingTimecodeToJson(value) ==
  LET d == AsDict(value) IN [d EXCEPT !.data.format = EnumToStr(d.data.format)]

TimingTimecodeFromJson(value) ==
  IF ~(value.kind = "dict" /\ DataFields("Timecode") \subseteq DOMAIN value.data)
    THEN DecodeFault
  ELSE LET f == TimecodeFormatFromString(value.data.format) IN
    IF f.fault THEN DecodeFault
    ELSE Decoded(PyData("Timecode",
                        [Restrict(value.data, DataFields("Timecode"))
                           EXCEPT !.format = f.val]))

HoursInteger(x) == JsonIntegerIn(x, 0, 23)

SixtiethInteger(x) == JsonIntegerIn(x, 0, 59)

FramesInteger(x) == JsonIntegerIn(x, 0, 29)

FormatString(x) == JsonString(x) /\ Len(x.data) = 1 /\ x.data[1] \in TimecodeFormats

TimingTimecodeConforms(j) ==
  /\ JsonObject(j)
  /\ DOMAIN j.data \subseteq {"hours", "minutes", "seconds", "frames", "format"}
  /\ (Has(j, "hours") => HoursInteger(j.data["hours"]))
  /\ (Has(j, "minutes") => SixtiethInteger(j.data["minutes"]))
  /\ (Has(j, "seconds") => SixtiethInteger(j.data["seconds"]))
  /\ (Has(j, "frames") => FramesInteger(j.data["frames"]))
  /\ (Has(j, "format") => FormatString(j.data["format"]))

----------------------------------------------------------------------------
(* TimingSynchronization *)

UpperHex == {"A", "B", "C", "D", "E", "F"}

Digits == {"0", "1", "2", "3", "4", "5", "6", "7", "8", "9"}

\* str.lower() on one character of the sampled alphabet
LowerChar(c) ==
  CASE c = "A" -> "a" [] c = "B" -> "b" [] c = "C" -> "c"
    [] c = "D" -> "d" [] c = "E" -> "e" [] c = "F" -> "f"
    [] c = "N" -> "n" [] OTHER -> c

Lower(s) == [i \in DOMAIN s |-> LowerChar(s[i])]

\* [0-9a-f]
LowerHexChars == Digits \cup {"a", "b", "c", "d", "e", "f"}

\* [A-F0-9]
UpperHexChars == Digits \cup UpperHex

\* six groups of two characters of hex, the groups separated by sep
\* (a sequence of zero or one character), and nothing else
SixOctets(s, sep, hex) ==
  LET w == 2 + Len(sep) IN
  /\ Len(s) = 12 + 5 * Len(sep)
  /\ \A k \in 0..5 :
       /\ s[k * w + 1] \in hex
       /\ s[k * w + 2] \in hex
       /\ (k < 5 /\ Len(sep) = 1) => s[k * w + 3] = sep[1]

\* re.match("[0-9a-f]{2}([-:]?)[0-9a-f]{2}(\\1[0-9a-f]{2}){4}$", s.lower())
\* the group takes the third character when it is "-" or ":", else nothing
MatchesMacAddress(s) ==
  LET l == Lower(s)
      sep == IF Len(l) >= 3 /\ l[3] \in {"-", ":"} THEN <<l[3]>> ELSE <<>>
  IN SixOctets(l, sep, LowerHexChars)

\* the schema's pattern "^([A-F0-9]{2}:){5}[A-F0-9]{2}$"
MatchesSchemaMacPattern(s) == SixOctets(s, <<":">>, UpperHexChars)

\* value.offsets.validate(): only a SynchronizationOffsets has the method
HasValidateMethod(x) == x.kind = "SynchronizationOffsets"

\* SynchronizationOffsets.validate
SynchronizationOffsetsValidate(x) ==
  \A k \in DOMAIN x.data : IsFloat(x.data[k])

TimingSynchronizationValidate(value) ==
  IF value.kind # "Synchronization" THEN "false"
  ELSE LET s == value.data IN
    IF ~(IsFloat(s.frequency) /\ s.frequency.data[1] > 0) THEN "false"
    ELSE IF ~IsBool(s.locked) THEN "false"
    ELSE IF s.source.kind # "SynchronizationSourceEnum" THEN "false"
    ELSE IF ~IsNone(s.ptp_master)
            /\ ~(IsStr(s.ptp_master) /\ MatchesMacAddress(s.ptp_master.data))
      THEN "false"
    ELSE IF ~IsNone(s.ptp_offset) /\ ~IsFloat(s.ptp_offset) THEN "false"
    ELSE IF ~IsNone(s.ptp_domain)
            /\ ~(IsIntegral(s.ptp_domain) /\ Tenths(s.ptp_domain) >= 0)
      THEN "false"
    ELSE IF ~IsNone(s.offsets) /\ ~HasValidateMethod(s.offsets) THEN "fault"
    ELSE IF ~IsNone(s.offsets) /\ ~SynchronizationOffsetsValidate(s.offsets)
      THEN "false"
    ELSE IF ~IsNone(s.enabled) /\ ~IsBool(s.enabled) THEN "false"
    ELSE "true"

TimingSynchronizationToJson(value) ==
  LET d == DropNone(AsDict(value)) IN [d EXCEPT !.data.source = EnumToStr(d.data.source)]

TimingSynchronizationFromJson(value) ==
  IF CanConstruct("Synchronization", value)
    THEN Decoded(Construct("Synchronization", value))
  ELSE DecodeFault

SynchronizationSources == {"genlock", "ptp"}

SourceString(x) == JsonString(x) /\ Len(x.data) = 1 /\ x.data[1] \in SynchronizationSources

MacString(x) == JsonString(x) /\ MatchesSchemaMacPattern(x.data)

NonNegativeInteger(x) == JsonInteger(x) /\ x.data[1] >= 0

OffsetsObject(x) ==
  /\ JsonObject(x)
  /\ DOMAIN x.data \subseteq {"translation", "rotation", "encoders"}
  /\ \A k \in {"translation", "rotation", "encoders"} : (Has(x, k) => JsonNumber(x.data[k]))

TimingSynchronizationConforms(j) ==
  /\ JsonObject(j)
  /\ DOMAIN j.data \subseteq DataFields("Synchronization")
  /\ {"frequency", "locked", "source"} \subseteq DOMAIN j.data
  /\ (Has(j, "frequency") => NonNegativeNumber(j.data["frequency"]))
  /\ (Has(j, "locked") => JsonBoolean(j.data["locked"]))
  /\ (Has(j, "source") => SourceString(j.data["source"]))
  /\ (Has(j, "ptp_master") => MacString(j.data["ptp_master"]))
  /\ (Has(j, "ptp_offset") => JsonNumber(j.data["ptp_offset"]))
  /\ (Has(j, "ptp_domain") => NonNegativeInteger(j.data["ptp_domain"]))
  /\ (Has(j, "offsets") => OffsetsObject(j.data["offsets"]))
  /\ (Has(j, "enabled") => JsonBoolean(j.data["enabled"]))

----------------------------------------------------------------------------
(* Transforms *)

AllReal(x) == \A k \in DOMAIN x.data : IsReal(x.data[k])

\* the body of the for loop of validate: one transform passes every test
TransformOk(transform) ==
  /\ transform.kind = "Transform"
  /\ transform.data.translation.kind = "Vector3"
  /\ transform.data.rotation.kind = "Rotator3"
  /\ IsNone(transform.data.scale) \/ transform.data.scale.kind = "Vector3"
  /\ AllReal(transform.data.translation)
  /\ AllReal(transform.data.rotation)
  /\ IsNone(transform.data.scale) \/ AllReal(transform.data.scale)
  /\ IsNone(transform.data.name) \/ IsStr(transform.data.name)
  /\ IsNone(transform.data.parent) \/ IsStr(transform.data.parent)

TransformsValidate(value) ==
  IF value.kind # "tuple" THEN "false"
  ELSE IF Len(value.data) = 0 THEN "false"
  ELSE Outcome(\A i \in DOMAIN value.data : TransformOk(value.data[i]))

TransformsToJson(value) ==
  PyList([i \in DOMAIN value.data |-> AsDictNoNone(value.data[i])])

TransformsFromJson(value) ==
  IF ~JsonArray(value) THEN DecodeFault
  ELSE IF \E i \in DOMAIN value.data : ~CanConstruct("Transform", value.data[i])
    THEN DecodeFault
  ELSE Decoded(PyTuple([i \in DOMAIN value.data |-> Construct("Transform", value.data[i])]))

NumbersObject(x, keys) ==
  /\ JsonObject(x)
  /\ DOMAIN x.data \subseteq keys
  /\ \A k \in keys : (Has(x, k) => JsonNumber(x.data[k]))

Vector3Object(x) == NumbersObject(x, {"x", "y", "z"})

Rotator3Object(x) == NumbersObject(x, {"pan", "tilt", "roll"})

TransformObject(x) ==
  /\ JsonObject(x)
  /\ DOMAIN x.data \subseteq {"translation", "rotation", "scale"}
  /\ {"translation", "rotation"} \subseteq DOMAIN x.data
  /\ (Has(x, "translation") => Vector3Object(x.data["translation"]))
  /\ (Has(x, "rotation") => Rotator3Object(x.data["rotation"]))
  /\ (Has(x, "scale") => Vector3Object(x.data["scale"]))

TransformsConforms(j) ==
  /\ JsonArray(j)
  /\ Len(j.data) >= 1
  /\ \A i \in DOMAIN j.data : TransformObject(j.data[i])

----------------------------------------------------------------------------
(* The descriptors as one interface *)

Descriptors ==
  {"ShutterAngle", "Transforms", "TimingSynchronization", "LensEncoders",
   "TimingTimecode", "LensFoVScale", "LensExposureFalloff"}

\* desc.validate(value): "true", "false", or "fault" when it raises
Validate(d, value) ==
  CASE d = "ShutterAngle" -> ShutterAngleValidate(value)
    [] d = "Transforms" -> TransformsValidate(value)
    [] d = "TimingSynchronization" -> TimingSynchronizationValidate(value)
    [] d = "LensEncoders" -> LensEncodersValidate(value)
    [] d = "TimingTimecode" -> TimingTimecodeValidate(value)
    [] d = "LensFoVScale" -> LensFoVScaleValidate(value)
    [] d = "LensExposureFalloff" -> LensExposureFalloffValidate(value)

\* desc.to_json(value)
ToJson(d, value) ==
  CASE d = "ShutterAngle" -> ShutterAngleToJson(value)
    [] d = "Transforms" -> TransformsToJson(value)
    [] d = "TimingSynchronization" -> TimingSynchronizationToJson(value)
    [] d = "LensEncoders" -> LensEncodersToJson(value)
    [] d = "TimingTimecode" -> TimingTimecodeToJson(value)
    [] d = "LensFoVScale" -> LensFoVScaleToJson(value)
    [] d = "LensExposureFalloff" -> LensExposureFalloffToJson(value)

\* desc.from_json(value)
FromJson(d, value) ==
  CASE d = "ShutterAngle" -> ShutterAngleFromJson(value)
    [] d = "Transforms" -> TransformsFromJson(value)
    [] d = "TimingSynchronization" -> TimingSynchronizationFromJson(value)
    [] d = "LensEncoders" -> LensEncodersFromJson(value)
    [] d = "TimingTimecode" -> TimingTimecodeFromJson(value)
    [] d = "LensFoVScale" -> LensFoVScaleFromJson(value)
    [] d = "LensExposureFalloff" -> LensExposureFalloffFromJson(value)

\* whether an encoded value is accepted by desc.make_json_schema()
Conforms(d, j) ==
  CASE d = "ShutterAngle" -> ShutterAngleConforms(j)
    [] d = "Transforms" -> TransformsConforms(j)
    [] d = "TimingSynchronization" -> TimingSynchronizationConforms(j)
    [] d = "LensEncoders" -> LensEncodersConforms(j)
    [] d = "TimingTimecode" -> TimingTimecodeConforms(j)
    [] d = "LensFoVScale" -> LensFoVScaleConforms(j)
    [] d = "LensExposureFalloff" -> LensExposureFalloffConforms(j)

----------------------------------------------------------------------------
(* Values the descriptors are applied to *)

MacUpperColon ==
  <<"0", "0", ":", "1", "1", ":", "2", "2", ":",
    "A", "A", ":", "B", "B", ":", "C", "C">>

MacLowerColon == Lower(MacUpperColon)

MacUpperDash ==
  [i \in DOMAIN MacUpperColon |->
     IF MacUpperColon[i] = ":" THEN "-" ELSE MacUpperColon[i]]

MacUpperBare == SelectSeq(MacUpperColon, LAMBDA c : c # ":")

MacMixedSeparators == [MacUpperColon EXCEPT ![3] = "-"]

NotAMac == <<"n", "o", "t", "-", "a", "-", "m", "a", "c">>

Vector3Sample ==
  PyData("Vector3", [x |-> PyFloat(10), y |-> PyFloat(20), z |-> PyFloat(30)])

Rotator3Sample ==
  PyData("Rotator3", [pan |-> PyFloat(1800), tilt |-> PyFloat(900), roll |-> PyInt(45)])

OffsetsSample ==
  PyData("SynchronizationOffsets",
         [translation |-> PyFloat(10), rotation |-> PyFloat(20), encoders |-> PyFloat(30)])

ShutterAngleSamples ==
  {PyNone, PyInt(0), PyInt(1), PyInt(180000), PyInt(360000), PyInt(360001),
   PyInt(400000), PyFloat(1800), PyStr(<<"180">>)}

TransformSamples ==
  {PyData("Transform", [translation |-> tr, rotation |-> Rotator3Sample,
                        scale |-> sc, name |-> nm, parent |-> PyNone]) :
     tr \in {Vector3Sample,
             [Vector3Sample EXCEPT !.data.x = PyStr(<<"1">>)],
             AsDict(Vector3Sample)},
     sc \in {PyNone, Vector3Sample},
     nm \in {PyNone, PyStr(<<"Camera">>)}}

TransformsSamples ==
  {PyNone}
  \cup {PyTuple(s) : s \in UNION {[1..n -> TransformSamples] : n \in 0..MaxTransforms}}

SynchronizationSamples ==
  {PyNone}
  \cup {PyData("Synchronization",
               [frequency |-> fr, locked |-> lk, source |-> so, ptp_master |-> pm,
                ptp_offset |-> po, ptp_domain |-> pd, offsets |-> of, enabled |-> en]) :
          fr \in {PyFloat(240), PyFloat(0), PyInt(24)},
          lk \in {PyBool(TRUE), PyNone},
          so \in {PyEnum("SynchronizationSourceEnum", "ptp"), PyStr(<<"ptp">>)},
          pm \in {PyNone, PyInt(5), PyStr(MacUpperColon), PyStr(MacLowerColon),
                  PyStr(MacUpperDash), PyStr(MacUpperBare),
                  PyStr(MacMixedSeparators), PyStr(NotAMac)},
          po \in {PyNone, PyFloat(5)},
          pd \in {PyNone, PyInt(0), PyInt(-1)},
          of \in {PyNone, OffsetsSample, AsDict(OffsetsSample),
                  [OffsetsSample EXCEPT !.data.encoders = PyNone]},
          en \in {PyNone, PyBool(TRUE)}}

EncodersSamples ==
  {PyNone}
  \cup {PyData("Encoders", [focus |-> a, iris |-> b, zoom |-> c]) :
          a \in {PyNone, PyFloat(5), PyFloat(15), PyInt(1)},
          b \in {PyNone, PyFloat(0), PyFloat(10)},
          c \in {PyNone, PyFloat(5)}}

TimecodeSamples ==
  {PyNone}
  \cup {PyData("Timecode", [hours |-> h, minutes |-> m, seconds |-> s,
                           frames |-> fr, format |-> fm]) :
          h \in {PyInt(0), PyInt(23), PyInt(24)},
          m \in {PyInt(59), PyInt(60)},
          s \in {PyInt(59), PyInt(-1)},
          fr \in {PyInt(0), PyInt(23), PyInt(24), PyInt(25), PyInt(29), PyInt(30),
                  PyFloat(10), PyBool(TRUE)},
          fm \in {PyEnum("TimecodeFormat", f) : f \in TimecodeFormats}
                 \cup {PyStr(<<"30">>)}}

OrientationsSamples ==
  {PyNone}
  \cup {PyData("Orientations", [horizontal |-> h, vertical |-> w]) :
          h \in {PyFloat(10), PyFloat(-10), PyInt(0), PyNone},
          w \in {PyFloat(15), PyFloat(-5), PyStr(<<"1">>)}}

ExposureFalloffSamples ==
  {PyNone}
  \cup {PyData("ExposureFalloff", [a1 |-> a, a2 |-> b, a3 |-> c]) :
          a \in {PyNone, PyFloat(10), PyInt(1), PyStr(<<"1">>)},
          b \in {PyNone, PyFloat(20), PyStr(<<"2">>)},
          c \in {PyNone, PyFloat(30)}}

Samples(d) ==
  CASE d = "ShutterAngle" -> ShutterAngleSamples
    [] d = "Transforms" -> TransformsSamples
    [] d = "TimingSynchronization" -> SynchronizationSamples
    [] d = "LensEncoders" -> EncodersSamples
    [] d = "TimingTimecode" -> TimecodeSamples
    [] d = "LensFoVScale" -> OrientationsSamples
    [] d = "LensExposureFalloff" -> ExposureFalloffSamples

----------------------------------------------------------------------------
(* Whole-record validate *)

\* the rule of ISO, TStop and FStop: a strictly positive integer
StrictlyPositiveIntegerValidate(value) == IsIntegral(value) /\ Tenths(value) > 0

\* what validate can make of one slot under sampling s: the descriptor's
\* verdict on the value of a STATIC slot, on every element of the sequence
\* of a REGULAR slot; a REGULAR slot holding no sequence has no elements to
\* walk, which is a failure or a fault
SlotVerdicts(s, v) ==
  IF IsNone(v) THEN {"true"}
  ELSE IF s = "STATIC" THEN {Outcome(StrictlyPositiveIntegerValidate(v))}
  ELSE IF IsTuple(v)
    THEN {Outcome(\A i \in DOMAIN v.data : StrictlyPositiveIntegerValidate(PyInt(v.data[i])))}
  ELSE {"false", "fault"}

\* self.validate(): the verdicts possible for a record under the mapping prm,
\* walking the fields the mapping has a descriptor for
ClipValidate(prm, vals) ==
  LET per == [f \in DOMAIN prm |-> SlotVerdicts(prm[f], vals[f])] IN
  {o \in {"true", "false", "fault"} :
     IF o = "true" THEN \A f \in DOMAIN prm : "true" \in per[f]
     ELSE \E f \in DOMAIN prm : o \in per[f]}

----------------------------------------------------------------------------
(* The descriptor variables at rest *)

NoDecode == [fault |-> FALSE, val |-> PyNone]

DescIdle ==
  /\ dname = "none"
  /\ dval = PyNone
  /\ stage = "idle"
  /\ dres = "none"
  /\ wire = PyNone
  /\ conforms = TRUE
  /\ dec = NoDecode
  /\ dres2 = "none"

----------------------------------------------------------------------------
(* Container specification *)

Init ==
  /\ params = DeclaredSampling
  /\ values = [c \in Clips |-> EmptyValues]
  /\ last = NoOp
  /\ extracted = EmptyValues
  /\ schema = EmptySchema
  /\ DescIdle

\* clip.<field> = v
Set ==
  \E c \in Clips, f \in Fields :
    \E v \in SetInputs(f) :
      /\ values' = [values EXCEPT ![c][f] = v]
      /\ last' = [NoOp EXCEPT !.op = "set", !.recv = c]
      /\ extracted' = EmptyValues
      /\ schema' = EmptySchema
      /\ UNCHANGED <<params, dvars>>

\* A.append(other)
ClipAppend ==
  \E o \in {"B", NotAClip} :
    \E order \in Orders(DOMAIN params) :
      LET r == AppendResult(params, order, values["A"], o \in Clips,
                            IF o \in Clips THEN values[o] ELSE EmptyValues)
      IN /\ MaxSlotLen(r.vals) <= MaxLen
         /\ values' = [values EXCEPT !["A"] = r.vals]
         /\ last' = [NoOp EXCEPT !.op = "append", !.recv = "A", !.other = o,
                                 !.fault = r.fault]
         /\ extracted' = EmptyValues
         /\ schema' = EmptySchema
         /\ UNCHANGED <<params, dvars>>

\* A[i]
Extract ==
  \E i \in 0..(MaxLen - 1) :
    LET r == GetItem(values["A"], i)
    IN /\ last' = [NoOp EXCEPT !.op = "extract", !.recv = "A", !.idx = i,
                               !.fault = r.fault]
       /\ extracted' = IF r.fault THEN EmptyValues ELSE r.clip
       /\ schema' = EmptySchema
       /\ UNCHANGED <<params, values, dvars>>

\* A.validate(), or validate() of the record A[i] just returned
ValidateClip ==
  \/ \E o \in ClipValidate(params, values["A"]) :
       /\ last' = [NoOp EXCEPT !.op = "validate", !.recv = "A", !.verdict = o]
       /\ extracted' = EmptyValues
       /\ schema' = EmptySchema
       /\ UNCHANGED <<params, values, dvars>>
  \/ /\ last.op = "extract"
     /\ ~last.fault
     /\ \E o \in ClipValidate(params, extracted) :
          last' = [last EXCEPT !.op = "validate_extracted", !.verdict = o]
     /\ UNCHANGED <<params, values, extracted, schema, dvars>>

\* Clip.make_json_schema()
MakeRegularSchema ==
  /\ schema' = MakeJsonSchema(params)
  /\ last' = [NoOp EXCEPT !.op = "make_json_schema"]
  /\ extracted' = EmptyValues
  /\ UNCHANGED <<params, values, dvars>>

\* Clip.make_static_json_schema()
MakeStaticSchema ==
  /\ params' = StaticParams(params)
  /\ schema' = MakeJsonSchema(params')
  /\ last' = [NoOp EXCEPT !.op = "make_static_json_schema"]
  /\ extracted' = EmptyValues
  /\ UNCHANGED <<values, dvars>>

Next ==
  \/ Set
  \/ ClipAppend
  \/ Extract
  \/ ValidateClip
  \/ MakeRegularSchema
  \/ MakeStaticSchema

Spec == Init /\ [][Next]_vars

----------------------------------------------------------------------------
(* Descriptor specification: a value is drawn for one descriptor, then      *)
(* validate, to_json, the schema check, from_json and validate of the       *)
(* decoded value are applied in turn.                                       *)


DescInit ==
  /\ params = DeclaredSampling
  /\ values = [c \in Clips |-> EmptyValues]
  /\ last = NoOp
  /\ extracted = EmptyValues
  /\ schema = EmptySchema
  /\ \E d \in Descriptors :
       /\ dname = d
       /\ dval \in Samples(d)
  /\ stage = "drawn"
  /\ dres = "none"
  /\ wire = PyNone
  /\ conforms = TRUE
  /\ dec = NoDecode
  /\ dres2 = "none"

\* desc.validate(v)
DoValidate ==
  /\ stage = "drawn"
  /\ dres' = Validate(dname, dval)
  /\ stage' = "validated"
  /\ UNCHANGED <<cvars, dname, dval, wire, conforms, dec, dres2>>

\* j = desc.to_json(v), for a value validate accepted
DoToJson ==
  /\ stage = "validated"
  /\ dres = "true"
  /\ wire' = ToJson(dname, dval)
  /\ stage' = "encoded"
  /\ UNCHANGED <<cvars, dname, dval, dres, conforms, dec, dres2>>

\* j checked against desc.make_json_schema()
DoSchemaCheck ==
  /\ stage = "encoded"
  /\ conforms' = Conforms(dname, wire)
  /\ stage' = "checked"
  /\ UNCHANGED <<cvars, dname, dval, dres, wire, dec, dres2>>

\* desc.from_json(j)
DoFromJson ==
  /\ stage = "checked"
  /\ dec' = FromJson(dname, wire)
  /\ stage' = "decoded"
  /\ UNCHANGED <<cvars, dname, dval, dres, wire, conforms, dres2>>

\* desc.validate(desc.from_json(j))
DoRevalidate ==
  /\ stage = "decoded"
  /\ ~dec.fault
  /\ dres2' = Validate(dname, dec.val)
  /\ stage' = "revalidated"
  /\ UNCHANGED <<cvars, dname, dval, dres, wire, conforms, dec>>

\* a JSON scalar that validate rejected, checked as it is against
\* desc.make_json_schema()
DoSchemaCheckRejected ==
  /\ stage = "validated"
  /\ dres = "false"
  /\ dval.kind \in {"None", "int", "float", "str"}
  /\ wire' = dval
  /\ conforms' = Conforms(dname, dval)
  /\ stage' = "rejected_checked"
  /\ UNCHANGED <<cvars, dname, dval, dres, dec, dres2>>

DescNext ==
  \/ DoValidate
  \/ DoSchemaCheckRejected
  \/ DoToJson
  \/ DoSchemaCheck
  \/ DoFromJson
  \/ DoRevalidate

DescSpec == DescInit /\ [][DescNext]_vars

----------------------------------------------------------------------------
(* Claims about the container, checked under Spec *)

\* the step just taken was A.append(B) with B a Clip
AppendedClip == last'.op = "append" /\ last'.other \in Clips

\* C1: for every field declared REGULAR whose slot holds a sequence on both
\* A and B, an A.append(B) that completes leaves A.f equal to the old A.f
\* followed by B.f, in order, nothing dropped or duplicated.
C1_AppendConcatenates ==
  [][(AppendedClip /\ ~last'.fault) =>
       \A f \in DeclaredRegular :
         (IsTuple(values["A"][f]) /\ IsTuple(values["B"][f])) =>
           values'["A"][f] = PyTuple(values["A"][f].data \o values["B"][f].data)]_vars

\* C2: for every field declared REGULAR that is populated on B and absent
\* on A, A.append(B) completes without a fault and leaves A.f equal to B.f.
C2_AppendCreatesAbsent ==
  [][AppendedClip =>
       \A f \in DeclaredRegular :
         (IsNone(values["A"][f]) /\ IsTuple(values["B"][f])) =>
           (~last'.fault /\ values'["A"][f] = values["B"][f])]_vars

\* C3: A.append(B) changes only the REGULAR slots of A that are populated on
\* B: every STATIC slot of A, every slot of A whose field is unpopulated on
\* B, and every slot of B keep their values, whether or not the call faults.
C3_AppendFrame ==
  [][AppendedClip =>
       /\ \A f \in Fields :
            (f \in DeclaredStatic \/ IsNone(values["B"][f])) =>
              values'["A"][f] = values["A"][f]
       /\ values'["B"] = values["B"]]_vars

\* C3 witness: a completed A.append(B) under the declared mapping that
\* concatenated a REGULAR slot while both records held a STATIC value.
C3_Witness ==
  /\ last.op = "append" /\ last.other = "B" /\ ~last.fault
  /\ params = DeclaredSampling
  /\ \A f \in DeclaredStatic :
       ~IsNone(values["A"][f]) /\ ~IsNone(values["B"][f])
  /\ \E f \in DeclaredRegular :
       IsTuple(values["B"][f]) /\ Len(values["A"][f].data) >= 2
  /\ \E f \in DeclaredRegular : IsNone(values["B"][f])

\* C4: append with an argument that is not a Clip faults and changes no
\* slot of the receiver.
C4_AppendRejectsForeign ==
  [][(last'.op = "append" /\ last'.other = NotAClip) =>
       (last'.fault /\ values' = values)]_vars

\* C4 witness: append was called with a non-Clip on a populated receiver.
C4_Witness ==
  /\ last.op = "append" /\ last.other = NotAClip /\ last.fault
  /\ \E f \in DeclaredRegular : IsTuple(values["A"][f])
  /\ \E f \in DeclaredStatic : ~IsNone(values["A"][f])

\* C5: A[i] does not fault and returns a record that, for every field
\* declared REGULAR, holds the single element A.f[i] when A.f has one and is
\* unpopulated otherwise (absent, or too short).
C5_ExtractProjects ==
  last.op = "extract" =>
    /\ ~last.fault
    /\ \A f \in DeclaredRegular :
         extracted[f] =
           IF IsTuple(values["A"][f]) /\ last.idx < Len(values["A"][f].data)
             THEN PyInt(values["A"][f].data[last.idx + 1])
             ELSE PyNone

\* C6: the descriptor mapping of Clip is never mutated: its set of field
\* identifiers and each field's sampling stay as declared.
C6_ParamsImmutable == params = DeclaredSampling

\* C7: every call of make_static_json_schema returns a schema whose
\* properties are exactly the fields declared REGULAR, each inlined, and no
\* field declared STATIC, whatever ran before.
C7_StaticSchemaStable ==
  last.op = "make_static_json_schema" =>
    schema = [f \in DeclaredRegular |-> "inline"]

----------------------------------------------------------------------------
(* Claims about the descriptors, checked under DescSpec *)

\* C8: validate is total: on any value, and on any value from_json
\* produced, it returns true or false and never raises.
C8_ValidateTotal == dres # "fault" /\ dres2 # "fault"

\* C9: for every value validate accepts, to_json(v) conforms to the
\* descriptor's JSON schema fragment.
C9_SchemaConformance ==
  stage \in {"checked", "decoded", "revalidated"} => conforms

RECURSIVE NoNoneInside(_)
\* no key or position of an encoded value, at any depth, holds None
NoNoneInside(j) ==
  IF IsCompound(j)
    THEN \A k \in DOMAIN j.data : ~IsNone(j.data[k]) /\ NoNoneInside(j.data[k])
    ELSE TRUE

\* C10: for every value validate accepts, from_json(to_json(v)) does not
\* fault and equals v structurally, nested sub-values and enumeration
\* sub-fields included, and no absent optional sub-field appears as a key
\* of the encoded value.
C10_RoundTrip ==
  stage \in {"decoded", "revalidated"} =>
    /\ ~dec.fault
    /\ PyEq(dec.val, dval)
    /\ NoNoneInside(wire)

----------------------------------------------------------------------------
(* Claims about single descriptors, checked under DescSpec *)

\* a Python int (bool included, as isinstance(x, int) has it) in [lo, hi)
IntegerBelow(x, lo, hi) ==
  \/ x.kind = "int" /\ x.data[1] \in lo..(hi - 1)
  \/ x.kind = "bool" /\ (IF x.data[1] THEN 1 ELSE 0) \in lo..(hi - 1)

\* the frame count of each enumerated timecode format
FrameCount ==
  [f \in TimecodeFormats |-> IF f \in {"24", "24D"} THEN 24
                             ELSE IF f = "25" THEN 25 ELSE 30]

\* the acceptance condition the timecode rule states
TimecodeAccepted(v) ==
  /\ v.kind = "Timecode"
  /\ v.data.format.kind = "TimecodeFormat"
  /\ v.data.format.data[1] \in TimecodeFormats
  /\ IntegerBelow(v.data.hours, 0, 24)
  /\ IntegerBelow(v.data.minutes, 0, 60)
  /\ IntegerBelow(v.data.seconds, 0, 60)
  /\ IntegerBelow(v.data.frames, 0, FrameCount[v.data.format.data[1]])

TimecodeBoundary ==
  PyData("Timecode", [hours |-> PyInt(23), minutes |-> PyInt(59), seconds |-> PyInt(59),
                      frames |-> PyInt(29), format |-> PyEnum("TimecodeFormat", "30D")])

\* C11: TimingTimecode.validate accepts a value exactly when it is a Timecode
\* whose format is one of the enumerated formats, hours is an integer in
\* [0,24), minutes and seconds are integers in [0,60) and frames is an integer
\* in [0, N), N the frame count of the value's own format; 23:59:59:29 in 30D
\* is accepted, hours 24 is rejected, frames equal to the frame count is rejected.
C11_TimecodeValidate ==
  (dname = "TimingTimecode" /\ stage # "drawn") =>
    /\ dres = "true" <=> TimecodeAccepted(dval)
    /\ dval = TimecodeBoundary => dres = "true"
    /\ dval = [TimecodeBoundary EXCEPT !.data.hours = PyInt(24)] => dres = "false"
    /\ \A f \in TimecodeFormats :
         dval = [TimecodeBoundary EXCEPT
                   !.data.format = PyEnum("TimecodeFormat", f),
                   !.data.frames = PyInt(FrameCount[f])] => dres = "false"

\* validate has accepted 23:59:59:29 in 30D
C11_Witness ==
  /\ dname = "TimingTimecode"
  /\ stage = "validated"
  /\ dval = TimecodeBoundary
  /\ dres = "true"

\* C12: ShutterAngle.validate accepts an integer v exactly when
\* 0 < v <= 360000, and the ShutterAngle schema fragment accepts exactly the
\* same integers: 0 and 360001 are rejected by both, 1 and 360000 accepted by
\* both; 400000, as a record's shutter_angle, is a value the descriptor rejects.
C12_ShutterAngleRange ==
  (dname = "ShutterAngle" /\ dval.kind = "int") =>
    LET v == dval.data[1] IN
    /\ stage # "drawn" => (dres = "true" <=> (0 < v /\ v <= 360000))
    /\ stage \in {"checked", "rejected_checked"} =>
         (conforms <=> (0 < v /\ v <= 360000))
    /\ (stage # "drawn" /\ v \in {0, 360001, 400000}) => dres = "false"
    /\ (stage # "drawn" /\ v \in {1, 360000}) => dres = "true"
    /\ (stage = "rejected_checked" /\ v \in {0, 360001}) => ~conforms
    /\ (stage = "checked" /\ v \in {1, 360000}) => conforms

\* 360001 has been rejected by validate and by the schema fragment
C12_Witness ==
  /\ dname = "ShutterAngle"
  /\ dval = PyInt(360001)
  /\ stage = "rejected_checked"
  /\ dres = "false"
  /\ ~conforms

----------------------------------------------------------------------------
(* Further claims about the container, checked under Spec *)

\* C13: whenever append faults, whether on an incompatible argument or on a
\* REGULAR field populated on the other record and absent on the receiver,
\* every slot of the receiver holds the value it had before the call.
C13_FaultingAppendKeepsReceiver ==
  [][(last'.op = "append" /\ last'.fault) => values'["A"] = values["A"]]_vars

\* the populated fields of a record that are declared REGULAR all hold
\* sequences of one length
Aligned(vals) ==
  \A f, g \in DeclaredRegular :
    (IsTuple(vals[f]) /\ IsTuple(vals[g])) => Len(vals[f].data) = Len(vals[g].data)

\* C14: append preserves index alignment: when the populated REGULAR fields of
\* A all have one length and those of B all have one length, then after a
\* successful A.append(B) the populated REGULAR fields of A still all have one
\* length (and so after any sequence of such calls).
C14_AppendKeepsAlignment ==
  [][(AppendedClip /\ ~last'.fault /\ Aligned(values["A"]) /\ Aligned(values["B"]))
       => Aligned(values'["A"])]_vars

\* C15: extract preserves validity: when A passes whole-record validate() and
\* i is in range of every populated REGULAR sequence of A, the record A[i]
\* passes whole-record validate() under the same descriptor mapping.
C15_ExtractKeepsValidity ==
  (last.op = "validate_extracted" /\ ClipValidate(params, values["A"]) = {"true"})
    => last.verdict = "true"

====
